---- MODULE Spec2Model ----
(***************************************************************************)
(* SmartLibrarian: the recommendation pipeline of app.py (terminal loop)   *)
(* and server.py (HTTP handlers), the moderation gate, the LLM             *)
(* orchestration of llm.py, the image job of image_generation.py and the   *)
(* corpus parser of db.py.                                                 *)
(*                                                                         *)
(* Python strings that the code takes apart (narratives, titles, corpus    *)
(* lines) are sequences of one-character strings; strings the code only    *)
(* passes along (queries) are TLA+ strings.                                *)
(***************************************************************************)
EXTENDS Integers, Sequences, FiniteSets, TLC

(* ---------------------------- bounds ----------------------------------- *)
\* longest narrative text the generative backend answers with
MaxText == 3
\* most hits the vector index answers with
MaxHits == 2
\* most media jobs (image threads, speech calls) started in one run
MaxJobs == 2
\* most lines of a corpus file
MaxLines == 3
\* longest text of a corpus line after the optional marker
MaxLineLen == 2
MaxDocLen == 4
MaxSnippetLen == 3

(* ---------------------------- strings ---------------------------------- *)
\* Python None where a string may stand: no string over Chars equals it
None == <<"None">>

\* the characters of narratives and titles
Chars == {"a", "B"}

\* all strings over the character set cs of length n
RECURSIVE StrN(_, _)
StrN(cs, n) ==
    IF n = 0 THEN {<<>>}
    ELSE {<<c>> \o s : c \in cs, s \in StrN(cs, n - 1)}

StrUpTo(cs, n) == UNION {StrN(cs, k) : k \in 0..n}

\* str.lower() on one character
LowerChar(c) == CASE c = "B" -> "b" [] c = "E" -> "e" [] OTHER -> c

\* str.lower()
Lower(s) == [i \in 1..Len(s) |-> LowerChar(s[i])]

\* str.replace(old, new) for a one-character old
Replace(s, old, new) == [i \in 1..Len(s) |-> IF s[i] = old THEN new ELSE s[i]]

\* Python truthiness of an Optional[str]
Truthy(s) == s # None /\ s # <<>>

\* `x or default`
OrElse(x, default) == IF Truthy(x) THEN x ELSE default

\* sub in s  (substring test)
Contains(s, sub) ==
    \E i \in 0..(Len(s) - Len(sub)) : SubSeq(s, i + 1, i + Len(sub)) = sub

\* characters str.strip() removes
IsSpace(c) == c \in {" ", "\n"}

\* str.lstrip()
RECURSIVE LStrip(_)
LStrip(s) ==
    IF s # <<>> /\ IsSpace(Head(s)) THEN LStrip(Tail(s)) ELSE s

\* str.rstrip()
RECURSIVE RStrip(_)
RStrip(s) ==
    IF s # <<>> /\ IsSpace(s[Len(s)]) THEN RStrip(SubSeq(s, 1, Len(s) - 1)) ELSE s

\* str.strip()
Strip(s) == RStrip(LStrip(s))

\* sep.join(parts)
RECURSIVE Join(_, _)
Join(parts, sep) ==
    IF parts = <<>> THEN <<>>
    ELSE IF Len(parts) = 1 THEN parts[1]
    ELSE parts[1] \o sep \o Join(Tail(parts), sep)

(* ------------------------- fixed texts --------------------------------- *)
\* llm.py: the text returned when the first answer carries no content
\* (diacritics written without their marks; the length is the program's)
NoAnswerText ==
    <<"N", "u", " ", "a", "m", " ", "u", "n", " ", "r", "a", "s", "p", "u",
      "n", "s", " ", "m", "o", "m", "e", "n", "t", "a", "n", ".">>

\* llm.py: the fixed failure narrative for an unknown tool name
ToolFailureText ==
    <<"N", "u", " ", "a", "m", " ", "p", "u", "t", "u", "t", " ", "a", "p",
      "e", "l", "a", " ", "u", "n", "e", "l", "t", "e", "l", "e", " ", "n",
      "e", "c", "e", "s", "a", "r", "e", " ", "p", "e", "n", "t", "r", "u",
      " ", "a", "c", "e", "s", "t", " ", "r", "a", "s", "p", "u", "n", "s",
      ".">>

\* moderation.py: the warning of the gate
WarningText ==
    <<"T", "e", " ", "r", "o", "g", " ", "s", "a", " ", "f", "o", "l", "o",
      "s", "e", "s", "t", "i", " ", "u", "n", " ", "l", "i", "m", "b", "a",
      "j", " ", "r", "e", "s", "p", "e", "c", "t", "u", "o", "s", ".", " ",
      "M", "e", "s", "a", "j", "u", "l", " ", "t", "a", "u", " ", "p", "a",
      "r", "e", " ", "s", "a", " ", "c", "o", "n", "t", "i", "n", "a", " ",
      "c", "o", "n", "t", "i", "n", "u", "t", " ", "n", "e", "p", "o", "t",
      "r", "i", "v", "i", "t", ".">>

\* app.py: the heading put between the recommendation and the summary
SummaryHeader ==
    <<"\n", "\n", "R", "e", "z", "u", "m", "a", "t", " ", "c", "o", "m", "p",
      "l", "e", "t", " ", "p", "e", "n", "t", "r", "u", " ">>

(* ------------------- results of calls that may raise ------------------- *)
Returned(v) == [exc |-> "none", value |-> v]
Raised(e) == [exc |-> e, value |-> None]

(* --------------------------- moderation.py ----------------------------- *)
Category == {"violence", "sexual", "self_harm", "offensive"}

\* class ContentCompliance
ContentCompliance ==
    [is_violating : BOOLEAN, category : Category \cup {"null"},
     explanation_if_violating : {"null", "text"}]

\* what client.responses.parse does: it raises, or answers with
\* output_parsed a ContentCompliance or None (parsed = FALSE)
ModerationResponses ==
    {[raised |-> TRUE, parsed |-> FALSE,
      output |-> [is_violating |-> FALSE, category |-> "null",
                  explanation_if_violating |-> "null"]]}
    \cup {[raised |-> FALSE, parsed |-> FALSE,
           output |-> [is_violating |-> FALSE, category |-> "null",
                       explanation_if_violating |-> "null"]]}
    \cup {[raised |-> FALSE, parsed |-> TRUE, output |-> c] : c \in ContentCompliance}

\* check_message_compliance: the backend's error propagates, else output_parsed
check_message_compliance(resp) ==
    IF resp.raised THEN [exc |-> "APIError", parsed |-> FALSE, output |-> resp.output]
    ELSE [exc |-> "none", parsed |-> resp.parsed, output |-> resp.output]

\* moderate_or_pass with the "offensive" category let through
moderate_or_pass_OffensivePasses(resp) ==
    LET compliance == check_message_compliance(resp) IN
    IF compliance.exc # "none" THEN Raised(compliance.exc)
    ELSE IF ~compliance.parsed THEN Raised("AttributeError")
    ELSE IF compliance.output.is_violating /\ compliance.output.category # "offensive"
    THEN Returned(WarningText)
    ELSE Returned(None)

\* moderate_or_pass: the warning when is_violating, else None; reading
\* is_violating of a None verdict raises AttributeError
moderate_or_pass(resp) ==
    LET compliance == check_message_compliance(resp) IN
    IF compliance.exc # "none" THEN Raised(compliance.exc)
    ELSE IF ~compliance.parsed THEN Raised("AttributeError")
    ELSE IF compliance.output.is_violating THEN Returned(WarningText)
    ELSE Returned(None)

(* ------------------------------ rag.py --------------------------------- *)
\* the documents of the vector index: id, stored text, metadata title
IndexDocs ==
    {[id |-> <<"a">>, document |-> <<"a", "\n", "B">>, meta_title |-> None],
     [id |-> <<"B">>, document |-> <<"B", " ">>, meta_title |-> <<"B", "a">>]}

RECURSIVE HitLists(_)
HitLists(n) ==
    IF n = 0 THEN {<<>>}
    ELSE HitLists(n - 1) \cup
         {Append(h, d) : h \in {x \in HitLists(n - 1) : Len(x) = n - 1},
                         d \in IndexDocs}

\* what coll.query answers with: at most MaxHits distinct documents, closest first
QueryResults ==
    {h \in HitLists(MaxHits) : \A i, j \in 1..Len(h) : i # j => h[i].id # h[j].id}

\* default of the snippet_len parameter
SnippetLen == 220

\* _make_snippet
Ellipsis == <<".", ".", ".">>

_make_snippet(text, max_len) ==
    IF text = <<>> THEN <<>>
    ELSE LET one_line == Strip(Replace(text, "\n", " ")) IN
         IF Len(one_line) <= max_len THEN one_line
         ELSE RStrip(SubSeq(one_line, 1, max_len)) \o Ellipsis

\* retrieval_candidates: one candidate per hit, in the index's order
retrieval_candidates(hits, snippet_len) ==
    [i \in 1..Len(hits) |->
        [title |-> OrElse(hits[i].meta_title, hits[i].id),
         snippet |-> _make_snippet(hits[i].document, snippet_len),
         distance |-> i,    \* dists[i]: the rank stands for the distance
         id |-> hits[i].id]]

(* --------------------------- llm_tools.py ------------------------------ *)
\* book_summaries_dict: title -> full summary
BookTitles == {<<"a">>, <<"B">>}

book_summaries_dict ==
    [t \in BookTitles |-> IF t = <<"a">> THEN <<"a", " ", "a">> ELSE <<"B", "a">>]

\* get_summary_by_title: the stored summary, else the not-found sentence
get_summary_by_title(title) ==
    IF title \in BookTitles /\ Truthy(book_summaries_dict[title])
    THEN book_summaries_dict[title]
    ELSE <<"Cartea ">> \o title \o <<" nu exista.">>

(* ------------------------------ llm.py --------------------------------- *)
Narratives == StrUpTo(Chars, MaxText)

\* the arguments string of a requested tool call: empty, a JSON object with
\* or without the key "title", or text json.loads rejects
ArgTitles == {<<"a">>, <<"a", "B">>}

ToolArgs ==
    {[text |-> "object", title |-> t] : t \in ArgTitles \cup {None}}
    \cup {[text |-> "empty", title |-> None], [text |-> "malformed", title |-> None]}

ToolNames == {"get_summary_by_title", "other_tool"}

NoCall == [id |-> "none", name |-> "none", arguments |-> [text |-> "empty", title |-> None]]

SecondCall ==
    [id |-> "call_2", name |-> "get_summary_by_title",
     arguments |-> [text |-> "object", title |-> <<"a">>]]

ToolCallLists ==
    LET first == {[id |-> "call_1", name |-> n, arguments |-> a] :
                     n \in ToolNames, a \in ToolArgs}
    IN {<<c>> : c \in first}
       \cup {<<c, SecondCall>> : c \in {x \in first : x.arguments.title = <<"a", "B">>}}

\* resp.choices[0] of the first completion call
FirstChoices ==
    {[finish_reason |-> "stop", content |-> c, tool_calls |-> <<>>] :
        c \in Narratives \cup {None}}
    \cup {[finish_reason |-> "tool_calls", content |-> None, tool_calls |-> t] :
            t \in ToolCallLists}
    \cup {[finish_reason |-> "tool_calls", content |-> <<"a", "B", "a">>, tool_calls |-> <<>>],
          [finish_reason |-> "stop", content |-> <<"B">>, tool_calls |-> <<SecondCall>>]}

SystemMsg == <<"system_msg">>

Message(role, content, tool_calls, tool_call_id) ==
    [role |-> role, content |-> content, tool_calls |-> tool_calls,
     tool_call_id |-> tool_call_id]

\* _build_messages: the system instruction and the user message with one
\* "- title: snippet" line per candidate
_build_messages(user_query, cands) ==
    LET context_lines ==
            [i \in 1..Len(cands) |->
                <<"-", " ">> \o cands[i].title \o <<":", " ">> \o cands[i].snippet]
        context_block ==
            <<"Candidati (din cautare semantica):", "\n">> \o Join(context_lines, <<"\n">>)
        user_msg ==
            <<"Cerere: ">> \o user_query \o <<"\n", "\n">> \o context_block
            \o <<"\n", "\n", "Alege cea mai potrivita carte si explica pe scurt de ce.">>
    IN <<Message("system", SystemMsg, <<>>, "none"),
         Message("user", user_msg, <<>>, "none")>>

\* json.loads(arguments or "{}")
json_loads(arguments) ==
    IF arguments.text = "malformed" THEN Raised("JSONDecodeError")
    ELSE IF arguments.text = "empty" THEN Returned(None)
    ELSE Returned(arguments.title)

\* args.get("title", "")
args_get_title(parsed) == IF parsed = None THEN <<>> ELSE parsed

\* the caller's `recommendation, chosen_title, summary = <str>`: a string of
\* exactly three characters unpacks into its characters, any other raises
Unpack3(ret) ==
    IF Len(ret) = 3
    THEN [exc |-> "none", recommendation |-> <<ret[1]>>, chosen_title |-> <<ret[2]>>,
          summary |-> <<ret[3]>>]
    ELSE [exc |-> "ValueError", recommendation |-> None, chosen_title |-> None,
          summary |-> None]

(* ------------------------------ state ---------------------------------- *)
VARIABLES
    frontend,        \* "cli" (app.py) or "server" (server.py)
    pc,              \* where the main thread / the request handler stands
    user_q,          \* the query being handled
    candidates,      \* retrieval_candidates' result
    messages,        \* the conversation of make_llm_recommendation
    tool_call,       \* the tool call handed to _handle_tool_call_once
    ret,             \* make_llm_recommendation's return value
    recommendation,  \* the caller's three unpacked names
    chosen_title,
    summary,
    answer,          \* the text shown to the user
    said,            \* what was answered for the current query, in order
    log,             \* the calls made for the current query, in order
    error,           \* the exception that ended the current query, or "none"
    jobs,            \* media jobs started so far
    \* db.py, parse_books
    file_lines,             \* the lines of the corpus file, as read
    parse_pc,               \* "idle", "loop" or "done"
    line_no,                \* lines consumed so far
    titles,
    summaries,
    current_title,
    current_summary_lines,
    \* moderation.py, one call of moderate_or_pass
    gate_pc,                \* "idle", "called" or "returned"
    gate_message,           \* the message passed in
    gate_resp,              \* what the classification backend does
    gate_result,            \* what moderate_or_pass returns or raises
    \* rag.py, one call of _make_snippet
    snip_pc,                \* "idle", "called" or "returned"
    snip_text,              \* the document text passed in
    snip_max_len,           \* the max_len passed in
    snippet                 \* what _make_snippet returns

snipVars == <<snip_pc, snip_text, snip_max_len, snippet>>

gateVars == <<gate_pc, gate_message, gate_resp, gate_result>>

parseVars ==
    <<file_lines, parse_pc, line_no, titles, summaries, current_title,
      current_summary_lines>>

mainVars ==
    <<frontend, pc, user_q, candidates, messages, tool_call, ret, recommendation,
      chosen_title, summary, answer, said, log, error, jobs>>

vars == <<mainVars, parseVars, gateVars, snipVars>>

llmVars == <<candidates, messages, tool_call, ret>>
resultVars == <<recommendation, chosen_title, summary, answer>>

\* locals are dropped once no later statement reads them
ClearLlm ==
    /\ candidates' = <<>>
    /\ messages' = <<>>
    /\ tool_call' = NoCall
    /\ ret' = None

ClearResult ==
    /\ recommendation' = None
    /\ chosen_title' = None
    /\ summary' = None
    /\ answer' = None

Say(kind) == Append(said, kind)
Call(op, arg, result) == Append(log, [op |-> op, arg |-> arg, result |-> result])

(* ------------------------------ jobs ----------------------------------- *)
Running == {"started", "calling", "writing"}

\* a job's record: its kind, whether it runs on a thread of its own, the title
\* and file name it was given, its state, the external calls it has made and the
\* lines it has printed (the text or summary only feeds the request's content)
Job(kind, thread, title, filename, state, calls) ==
    [kind |-> kind, thread |-> thread, title |-> title, filename |-> filename,
     state |-> state, calls |-> calls, printed |-> <<>>]

\* a job that has ended: its parameters are gone with its frame
Ended(j, state, line) ==
    [j EXCEPT !.title = None, !.filename = None, !.state = state,
              !.printed = IF line = "" THEN @ ELSE Append(@, line)]

\* daemon=True: when the interpreter exits, threads still running are stopped
KillDaemons(js) ==
    [i \in 1..Len(js) |->
        IF js[i].thread /\ js[i].state \in Running
        THEN Ended(js[i], "killed", "")
        ELSE js[i]]

\* the call the caller itself is waiting in, if any
InlineCalling == {i \in 1..Len(jobs) : ~jobs[i].thread /\ jobs[i].state = "calling"}

\* an exception nothing catches: app.py's main ends with a traceback and the
\* interpreter exits; the server answers the request with status 500
Uncaught(e) ==
    /\ error' = e
    /\ ClearLlm
    /\ ClearResult
    /\ IF frontend = "cli"
       THEN /\ pc' = "crashed"
            /\ jobs' = KillDaemons(jobs)
            /\ said' = said
       ELSE /\ pc' = "idle"
            /\ jobs' = jobs
            /\ said' = Say("http_500")

\* no corpus file is being parsed
ParseIdle ==
    /\ file_lines = <<>>
    /\ parse_pc = "idle"
    /\ line_no = 0
    /\ titles = <<>>
    /\ summaries = <<>>
    /\ current_title = None
    /\ current_summary_lines = <<>>

\* no call of the gate on its own is under way
GateIdle ==
    /\ gate_pc = "idle"
    /\ gate_message = <<>>
    /\ gate_resp = CHOOSE r \in ModerationResponses : r.raised
    /\ gate_result = Raised("none")

\* no call of _make_snippet on its own is under way
SnipIdle ==
    /\ snip_pc = "idle"
    /\ snip_text = <<>>
    /\ snip_max_len = SnippetLen
    /\ snippet = <<>>

MainInit(fe) ==
    /\ frontend = fe
    /\ pc = IF frontend = "cli" THEN "input" ELSE "idle"
    /\ user_q = <<>>
    /\ candidates = <<>>
    /\ messages = <<>>
    /\ tool_call = NoCall
    /\ ret = None
    /\ recommendation = None
    /\ chosen_title = None
    /\ summary = None
    /\ answer = None
    /\ said = <<>>
    /\ log = <<>>
    /\ error = "none"
    /\ jobs = <<>>

Init ==
    /\ \E fe \in {"cli", "server"} : MainInit(fe)
    /\ ParseIdle
    /\ GateIdle
    /\ SnipIdle

(* ------------------------- app.py: main loop --------------------------- *)
CmdExit == <<"e", "x", "i", "t">>
CmdQuit == <<"q", "u", "i", "t">>
CmdStt == <<":", "s", "t", "t">>
TypedQuery == <<"c", "a", "r", "t", "e">>

\* what the user types at "Your input: "
CliInputs ==
    {<<>>, <<" ">>, CmdExit, <<"E", "x", "i", "t", " ">>, CmdQuit, CmdStt, TypedQuery}

\* what transcribe_file answers with (resp.text or "")
Transcripts == {<<"v", "o", "c", "e">>}

\* lines 16-20 and 23: read a line; empty lines are skipped, exit/quit leave the loop
CliInput ==
    /\ frontend = "cli"
    /\ pc = "input"
    /\ \E raw \in CliInputs :
        LET q == Strip(raw) IN
        IF q = <<>> THEN UNCHANGED <<pc, user_q, said, log, error, jobs>>
        ELSE IF Lower(q) \in {CmdExit, CmdQuit}
        THEN /\ pc' = "exited"
             /\ jobs' = KillDaemons(jobs)
             /\ UNCHANGED <<user_q, said, log, error>>
        ELSE /\ pc' = IF q = CmdStt THEN "stt" ELSE "moderate"
             /\ user_q' = q
             /\ said' = <<>>
             /\ log' = <<>>
             /\ error' = "none"
             /\ UNCHANGED jobs
    /\ UNCHANGED <<snipVars, gateVars, parseVars, frontend, llmVars, resultVars>>

\* lines 24-33: the :stt command
CliStt ==
    /\ frontend = "cli"
    /\ pc = "stt"
    /\ \E path \in {<<>>, <<"f">>} :
        IF path = <<>>
        THEN /\ said' = Say("no_file")
             /\ pc' = "input"
             /\ UNCHANGED user_q
        ELSE \/ \E text \in Transcripts :
                  /\ user_q' = text
                  /\ pc' = "moderate"
                  /\ UNCHANGED said
             \/ /\ said' = Say("stt_error")
                /\ pc' = "input"
                /\ UNCHANGED user_q
    /\ UNCHANGED <<snipVars, gateVars, parseVars, frontend, llmVars, resultVars, log, error, jobs>>

\* CliModerate without the `continue` after the warning
CliModerate_NoContinue ==
    /\ frontend = "cli"
    /\ pc = "moderate"
    /\ \E resp \in ModerationResponses :
        LET warning == moderate_or_pass(resp) IN
        IF warning.exc # "none"
        THEN /\ log' = Call("moderate", user_q, "raised")
             /\ Uncaught(warning.exc)
        ELSE /\ log' = Call("moderate", user_q,
                            IF Truthy(warning.value) THEN "warning" ELSE "pass")
             /\ said' = IF Truthy(warning.value) THEN Say("warning") ELSE said
             /\ pc' = "retrieve"
             /\ UNCHANGED <<llmVars, resultVars, error, jobs>>
    /\ UNCHANGED <<snipVars, gateVars, parseVars, frontend, user_q>>

\* lines 36-39: the moderation gate
CliModerate ==
    /\ frontend = "cli"
    /\ pc = "moderate"
    /\ \E resp \in ModerationResponses :
        LET warning == moderate_or_pass(resp) IN
        IF warning.exc # "none"
        THEN /\ log' = Call("moderate", user_q, "raised")
             /\ Uncaught(warning.exc)
        ELSE IF Truthy(warning.value)
        THEN /\ log' = Call("moderate", user_q, "warning")
             /\ said' = Say("warning")
             /\ pc' = "input"
             /\ UNCHANGED <<llmVars, resultVars, error, jobs>>
        ELSE /\ log' = Call("moderate", user_q, "pass")
             /\ pc' = "retrieve"
             /\ UNCHANGED <<llmVars, resultVars, error, jobs, said>>
    /\ UNCHANGED <<snipVars, gateVars, parseVars, frontend, user_q>>

\* line 41: retrieval
CliRetrieve ==
    /\ frontend = "cli"
    /\ pc = "retrieve"
    /\ \/ \E hits \in QueryResults :
            /\ candidates' = retrieval_candidates(hits, SnippetLen)
            /\ log' = Call("retrieve", user_q, "returned")
            /\ pc' = "llm_first"
            /\ UNCHANGED <<messages, tool_call, ret, resultVars, error, jobs, said>>
       \/ /\ log' = Call("retrieve", user_q, "raised")
          /\ Uncaught("RetrievalError")
    /\ UNCHANGED <<snipVars, gateVars, parseVars, frontend, user_q>>

(* ---------------------- llm.py: the orchestration ---------------------- *)
\* make_llm_recommendation, lines 113-135: build the messages, call the
\* backend with the tool schema, and either hand the first requested tool call
\* to _handle_tool_call_once or return the text
LlmFirstCall ==
    /\ pc = "llm_first"
    /\ log' = Call("generate", user_q, "first")
    /\ \/ \E choice \in FirstChoices :
            IF choice.finish_reason = "tool_calls" /\ choice.tool_calls # <<>>
            THEN /\ messages' =
                      Append(_build_messages(user_q, candidates),
                             Message("assistant", choice.content, choice.tool_calls, "none"))
                 /\ tool_call' = choice.tool_calls[1]
                 /\ pc' = "tool"
                 /\ UNCHANGED <<candidates, ret, resultVars, error, jobs, said>>
            ELSE /\ ret' = OrElse(choice.content, NoAnswerText)
                 /\ messages' = <<>>
                 /\ pc' = "unpack"
                 /\ UNCHANGED <<candidates, tool_call, resultVars, error, jobs, said>>
       \/ Uncaught("APIError")
    /\ UNCHANGED <<snipVars, gateVars, parseVars, frontend, user_q>>

\* a variant that goes on to the follow-up call without running the lookup
LlmToolCall_NoLookup ==
    /\ pc = "tool"
    /\ pc' = "followup"
    /\ UNCHANGED <<llmVars, resultVars, error, jobs, said, log>>
    /\ UNCHANGED <<snipVars, gateVars, parseVars, frontend, user_q>>

\* _handle_tool_call_once, lines 66-80 and 90: parse the arguments, then run
\* the lookup and append its result, or return the failure text
LlmToolCall ==
    /\ pc = "tool"
    /\ LET args == json_loads(tool_call.arguments) IN
       IF args.exc # "none"
       THEN /\ Uncaught(args.exc)
            /\ UNCHANGED log
       ELSE IF tool_call.name = "get_summary_by_title"
       THEN LET title == args_get_title(args.value)
                found == get_summary_by_title(title)
            IN /\ log' = Call("lookup", <<>>, "returned")
               /\ messages' = Append(messages, Message("tool", found, <<>>, tool_call.id))
               /\ pc' = "followup"
               /\ UNCHANGED <<candidates, tool_call, ret, resultVars, error, jobs, said>>
       ELSE /\ ret' = ToolFailureText
            /\ messages' = <<>>
            /\ tool_call' = NoCall
            /\ pc' = "unpack"
            /\ UNCHANGED <<candidates, resultVars, error, jobs, said, log>>
    /\ UNCHANGED <<snipVars, gateVars, parseVars, frontend, user_q>>

\* _handle_tool_call_once, lines 82-87: the follow-up call, without tools
LlmFollowup ==
    /\ pc = "followup"
    /\ log' = Call("generate", user_q, "followup")
    /\ \/ \E content \in Narratives \cup {None} :
            /\ ret' = OrElse(content, <<>>)
            /\ messages' = <<>>
            /\ tool_call' = NoCall
            /\ pc' = "unpack"
            /\ UNCHANGED <<candidates, resultVars, error, jobs, said>>
       \/ Uncaught("APIError")
    /\ UNCHANGED <<snipVars, gateVars, parseVars, frontend, user_q>>

(* -------------------- app.py: answer, speech, image -------------------- *)
\* lines 45-47: the answer text
ComposeAnswer(rec, title, summ) ==
    IF Truthy(title) /\ Truthy(summ)
    THEN rec \o SummaryHeader \o title \o <<":", "\n">> \o summ
    ELSE rec

\* lines 42-49: unpack the orchestrator's result and print the answer
CliUnpack ==
    /\ frontend = "cli"
    /\ pc = "unpack"
    /\ LET u == Unpack3(ret) IN
       IF u.exc # "none"
       THEN Uncaught(u.exc)
       ELSE /\ recommendation' = u.recommendation
            /\ chosen_title' = u.chosen_title
            /\ summary' = u.summary
            /\ answer' = ComposeAnswer(u.recommendation, u.chosen_title, u.summary)
            /\ said' = Say("answer")
            /\ pc' = "ask_tts"
            /\ ClearLlm
            /\ UNCHANGED <<error, jobs>>
    /\ UNCHANGED <<snipVars, gateVars, parseVars, frontend, user_q, log>>

\* replace(" ", "_").replace("/", "_").lower()
SafeName(name) == Lower(Replace(Replace(name, " ", "_"), "/", "_"))

\* where the loop goes after the speech part: lines 62-67
AfterTts == IF Truthy(chosen_title) THEN "ask_img" ELSE "input"

\* lines 52-56: on "y" tts_save_to_file is called in the main thread
CliAskTts ==
    /\ frontend = "cli"
    /\ pc = "ask_tts"
    /\ \E choice_tts \in {"y", "n"} :
        IF choice_tts = "y"
        THEN /\ Len(jobs) < MaxJobs
             /\ LET book_title == OrElse(chosen_title, <<"default.mp3">>) IN
                jobs' = Append(jobs, Job("speech", FALSE, book_title, SafeName(book_title),
                                         "calling", 1))
             /\ pc' = "tts"
             /\ log' = Call("speech", <<>>, "called")
             /\ UNCHANGED <<resultVars>>
        ELSE /\ pc' = AfterTts
             /\ IF AfterTts = "input" THEN ClearResult ELSE UNCHANGED resultVars
             /\ UNCHANGED <<jobs, log>>
    /\ UNCHANGED <<snipVars, gateVars, parseVars, frontend, user_q, llmVars, said, error>>

\* lines 56-59: the speech call returns, or raises and the loop reports it
CliTtsReturn ==
    /\ frontend = "cli"
    /\ pc = "tts"
    /\ \E i \in InlineCalling :
        \/ /\ jobs' = [jobs EXCEPT ![i] = Ended(@, "finished", "")]
           /\ said' = Say("audio_saved")
        \/ /\ jobs' = [jobs EXCEPT ![i] = Ended(@, "failed", "")]
           /\ said' = Say("tts_error")
    /\ pc' = AfterTts
    /\ IF AfterTts = "input" THEN ClearResult ELSE UNCHANGED resultVars
    /\ UNCHANGED <<snipVars, gateVars, parseVars, frontend, user_q, llmVars, log, error>>

\* spawn_image_job running _job itself (run() for start()): the job is over
\* when it returns
spawn_image_job_Run(title, summ, filename) ==
    jobs' = Append(jobs, Ended(Job("image", FALSE, title, filename, "calling", 1),
                               "finished", "[DEBUG] Finished image gen"))

\* spawn_image_job, image_generation.py lines 9-19: start the daemon thread
\* and return
spawn_image_job(title, summ, filename) ==
    jobs' = Append(jobs, Job("image", TRUE, title, filename, "started", 0))

\* lines 62-67: on "y" the image job is spawned and the loop goes on
CliAskImage ==
    /\ frontend = "cli"
    /\ pc = "ask_img"
    /\ \E choice_image_gen \in {"y", "n"} :
        IF choice_image_gen = "y"
        THEN /\ Len(jobs) < MaxJobs
             /\ spawn_image_job(chosen_title, summary, SafeName(chosen_title))
             /\ log' = Call("image", <<>>, "spawned")
        ELSE UNCHANGED <<jobs, log>>
    /\ pc' = "input"
    /\ ClearResult
    /\ UNCHANGED <<snipVars, gateVars, parseVars, frontend, user_q, llmVars, said, error>>

(* ----------------- image_generation.py: the job thread ----------------- *)
Printed(j, line) == Append(j.printed, line)

\* _job, lines 12-15: print, build the prompt, send the generation request
JobCall(i) ==
    /\ jobs[i].thread
    /\ jobs[i].state = "started"
    /\ jobs' = [jobs EXCEPT ![i] =
                  [@ EXCEPT !.state = "calling", !.calls = @ + 1,
                            !.printed = Printed(jobs[i], "[DEBUG] Starting image gen")]]
    /\ UNCHANGED <<snipVars, gateVars, parseVars, frontend, pc, user_q, llmVars, resultVars, said, log, error>>

\* JobCallReturn with a failed request sent once more
JobCallReturn_Retry(i) ==
    /\ jobs[i].thread
    /\ jobs[i].state = "calling"
    /\ \/ jobs' = [jobs EXCEPT ![i].state = "writing"]
       \/ jobs' = IF jobs[i].calls < 2
                  THEN [jobs EXCEPT ![i].state = "started"]
                  ELSE [jobs EXCEPT ![i] = Ended(@, "failed", "[ERROR] Image generation failed")]
    /\ UNCHANGED <<snipVars, gateVars, parseVars, frontend, pc, user_q, llmVars, resultVars, said, log, error>>

\* generate_image_to_file, lines 48-54: the request answers or raises;
\* _job, lines 17-18: any Exception is printed and the thread ends
JobCallReturn(i) ==
    /\ jobs[i].thread
    /\ jobs[i].state = "calling"
    /\ \/ jobs' = [jobs EXCEPT ![i].state = "writing"]
       \/ jobs' = [jobs EXCEPT ![i] = Ended(@, "failed", "[ERROR] Image generation failed")]
    /\ UNCHANGED <<snipVars, gateVars, parseVars, frontend, pc, user_q, llmVars, resultVars, said, log, error>>

\* generate_image_to_file, lines 54-58: decode and write the file;
\* _job, lines 16-18
JobWrite(i) ==
    /\ jobs[i].thread
    /\ jobs[i].state = "writing"
    /\ \/ jobs' = [jobs EXCEPT ![i] = Ended(@, "finished", "[DEBUG] Finished image gen")]
       \/ jobs' = [jobs EXCEPT ![i] = Ended(@, "failed", "[ERROR] Image generation failed")]
    /\ UNCHANGED <<snipVars, gateVars, parseVars, frontend, pc, user_q, llmVars, resultVars, said, log, error>>

(* --------------------------- server.py --------------------------------- *)
\* requests share no state they write, so the handlers are taken one request
\* at a time
ChatPayloads == {<<>>, <<" ">>, TypedQuery}

\* _safe_name
_safe_name(name) ==
    Lower(Replace(Replace(Replace(Strip(name), " ", "_"), "/", "_"), "\\", "_"))

\* chat, lines 56-58: an empty question is answered with status 400
ChatRequest ==
    /\ frontend = "server"
    /\ pc = "idle"
    /\ \E raw \in ChatPayloads :
        LET q == Strip(raw) IN
        /\ user_q' = q
        /\ log' = <<>>
        /\ error' = "none"
        /\ IF q = <<>>
           THEN /\ said' = <<"http_400">>
                /\ pc' = "idle"
           ELSE /\ said' = <<>>
                /\ pc' = "moderate"
    /\ UNCHANGED <<snipVars, gateVars, parseVars, frontend, llmVars, resultVars, jobs>>

\* chat, lines 60-62: the moderation gate
ChatModerate ==
    /\ frontend = "server"
    /\ pc = "moderate"
    /\ \E resp \in ModerationResponses :
        LET warn == moderate_or_pass(resp) IN
        IF warn.exc # "none"
        THEN /\ log' = Call("moderate", user_q, "raised")
             /\ Uncaught(warn.exc)
        ELSE IF Truthy(warn.value)
        THEN /\ log' = Call("moderate", user_q, "warning")
             /\ said' = Say("warning")
             /\ pc' = "idle"
             /\ UNCHANGED <<llmVars, resultVars, error, jobs>>
        ELSE /\ log' = Call("moderate", user_q, "pass")
             /\ pc' = "retrieve"
             /\ UNCHANGED <<llmVars, resultVars, error, jobs, said>>
    /\ UNCHANGED <<snipVars, gateVars, parseVars, frontend, user_q>>

\* chat, line 64: retrieval
ChatRetrieve ==
    /\ frontend = "server"
    /\ pc = "retrieve"
    /\ \/ \E hits \in QueryResults :
            /\ candidates' = retrieval_candidates(hits, SnippetLen)
            /\ log' = Call("retrieve", user_q, "returned")
            /\ pc' = "llm_first"
            /\ UNCHANGED <<messages, tool_call, ret, resultVars, error, jobs, said>>
       \/ /\ log' = Call("retrieve", user_q, "raised")
          /\ Uncaught("RetrievalError")
    /\ UNCHANGED <<snipVars, gateVars, parseVars, frontend, user_q>>

\* chat, lines 65-70: unpack the orchestrator's result and answer with it
ChatUnpack ==
    /\ frontend = "server"
    /\ pc = "unpack"
    /\ LET u == Unpack3(ret) IN
       IF u.exc # "none"
       THEN Uncaught(u.exc)
       ELSE /\ said' = Say("http_200")
            /\ pc' = "idle"
            /\ ClearLlm
            /\ UNCHANGED <<resultVars, error, jobs>>
    /\ UNCHANGED <<snipVars, gateVars, parseVars, frontend, user_q, log>>

\* the title and summary fields of an /api/image payload
ImageTitles == {<<>>, <<"a">>, <<"a", " ", "B">>}
ImageSummaries == {<<>>, <<"a", "B">>}

\* image, lines 75-83: both fields are required; the image is generated in
\* the handler
ImageRequest ==
    /\ frontend = "server"
    /\ pc = "idle"
    /\ log' = <<>>
    /\ error' = "none"
    /\ \E title \in ImageTitles, summ \in ImageSummaries :
        IF title = <<>> \/ summ = <<>>
        THEN /\ said' = <<"http_400">>
             /\ pc' = "idle"
             /\ UNCHANGED jobs
        ELSE /\ Len(jobs) < MaxJobs
             /\ jobs' = Append(jobs, Job("image", FALSE, title, _safe_name(title), "calling", 1))
             /\ said' = <<>>
             /\ pc' = "image"
    /\ UNCHANGED <<snipVars, gateVars, parseVars, frontend, user_q, llmVars, resultVars>>

\* image, lines 84-85: the generation returns and the URL is answered, or it
\* raises out of the handler
ImageReturn ==
    /\ frontend = "server"
    /\ pc = "image"
    /\ \E i \in InlineCalling :
        \/ /\ jobs' = [jobs EXCEPT ![i] = Ended(@, "finished", "")]
           /\ said' = Say("http_200")
           /\ UNCHANGED error
        \/ /\ jobs' = [jobs EXCEPT ![i] = Ended(@, "failed", "")]
           /\ said' = Say("http_500")
           /\ error' = "APIError"
    /\ pc' = "idle"
    /\ UNCHANGED <<snipVars, gateVars, parseVars, frontend, user_q, llmVars, resultVars, log>>

\* the text and book_title fields of an /api/tts payload
TtsTexts == {<<" ">>, <<"a", "B">>}
TtsTitles == {None, <<"B", " ", "a">>}

\* tts, lines 90-102: text is required; the speech is synthesized in the handler
TtsRequest ==
    /\ frontend = "server"
    /\ pc = "idle"
    /\ log' = <<>>
    /\ error' = "none"
    /\ \E raw \in TtsTexts, book_title \in TtsTitles :
        LET text == Strip(raw)
            final_name == IF Truthy(book_title)
                          THEN _safe_name(book_title) \o <<".mp3">>
                          ELSE <<"default.mp3">>
        IN IF text = <<>>
           THEN /\ said' = <<"http_400">>
                /\ pc' = "idle"
                /\ UNCHANGED jobs
           ELSE /\ Len(jobs) < MaxJobs
                /\ jobs' = Append(jobs, Job("speech", FALSE, final_name, SafeName(final_name),
                                            "calling", 1))
                /\ said' = <<>>
                /\ pc' = "tts"
    /\ UNCHANGED <<snipVars, gateVars, parseVars, frontend, user_q, llmVars, resultVars>>

\* tts, lines 102-107: the synthesis returns and the URL is answered, or it
\* raises out of the handler
TtsReturn ==
    /\ frontend = "server"
    /\ pc = "tts"
    /\ \E i \in InlineCalling :
        \/ /\ jobs' = [jobs EXCEPT ![i] = Ended(@, "finished", "")]
           /\ said' = Say("http_200")
           /\ UNCHANGED error
        \/ /\ jobs' = [jobs EXCEPT ![i] = Ended(@, "failed", "")]
           /\ said' = Say("http_500")
           /\ error' = "APIError"
    /\ pc' = "idle"
    /\ UNCHANGED <<snipVars, gateVars, parseVars, frontend, user_q, llmVars, resultVars, log>>

\* stt, lines 111-126: the upload is transcribed in the handler
SttRequest ==
    /\ frontend = "server"
    /\ pc = "idle"
    /\ log' = <<>>
    /\ \/ /\ said' = <<"http_200">>
          /\ error' = "none"
       \/ /\ said' = <<"http_500">>
          /\ error' = "APIError"
    /\ UNCHANGED <<snipVars, gateVars, parseVars, frontend, pc, user_q, llmVars, resultVars, jobs>>

(* ------------------------- db.py: parse_books -------------------------- *)
TitleMarker == <<"#", "#", " ", "T", "i", "t", "l", "e", ":">>

LineChars == {"a", " "}

\* a line of the file: text, after the marker or not, and its newline
FileLines ==
    {m \o r \o <<"\n">> : m \in {<<>>, TitleMarker}, r \in StrUpTo(LineChars, MaxLineLen)}

RECURSIVE Files(_)
Files(n) ==
    IF n = 0 THEN {<<>>}
    ELSE Files(n - 1) \cup
         {Append(f, l) : f \in {x \in Files(n - 1) : Len(x) = n - 1}, l \in FileLines}

\* l.rstrip("\n")
RECURSIVE RStripNewline(_)
RStripNewline(l) ==
    IF l # <<>> /\ l[Len(l)] = "\n" THEN RStripNewline(SubSeq(l, 1, Len(l) - 1)) ELSE l

\* line.startswith(prefix)
StartsWith(line, prefix) ==
    Len(line) >= Len(prefix) /\ SubSeq(line, 1, Len(prefix)) = prefix

\* "\n".join(current_summary_lines).strip()
SummaryOf(ls) == Strip(Join(ls, <<"\n">>))

\* lines 10-18: one turn of the loop over the file's lines
ParseLine ==
    /\ parse_pc = "loop"
    /\ line_no < Len(file_lines)
    /\ LET line == RStripNewline(file_lines[line_no + 1]) IN
       IF StartsWith(line, TitleMarker)
       THEN /\ IF current_title # None
               THEN /\ titles' = Append(titles, current_title)
                    /\ summaries' = Append(summaries, SummaryOf(current_summary_lines))
                    /\ current_summary_lines' = <<>>
               ELSE UNCHANGED <<titles, summaries, current_summary_lines>>
            /\ current_title' = Strip(SubSeq(line, Len(TitleMarker) + 1, Len(line)))
       ELSE /\ current_summary_lines' = Append(current_summary_lines, line)
            /\ UNCHANGED <<titles, summaries, current_title>>
    /\ line_no' = line_no + 1
    /\ UNCHANGED <<snipVars, gateVars, mainVars, file_lines, parse_pc>>

\* lines 20-24: after the last line the open item is closed and the lists returned
ParseEnd ==
    /\ parse_pc = "loop"
    /\ line_no = Len(file_lines)
    /\ IF current_title # None
       THEN /\ titles' = Append(titles, current_title)
            /\ summaries' = Append(summaries, SummaryOf(current_summary_lines))
       ELSE UNCHANGED <<titles, summaries>>
    /\ parse_pc' = "done"
    /\ UNCHANGED <<snipVars, gateVars, mainVars, file_lines, line_no, current_title, current_summary_lines>>

\* parse_books is entered with a file of at most MaxLines lines
InitParse ==
    /\ MainInit("cli")
    /\ GateIdle
    /\ SnipIdle
    /\ file_lines \in Files(MaxLines)
    /\ parse_pc = "loop"
    /\ line_no = 0
    /\ titles = <<>>
    /\ summaries = <<>>
    /\ current_title = None
    /\ current_summary_lines = <<>>

NextParse == ParseLine \/ ParseEnd

SpecParse == InitParse /\ [][NextParse]_vars

(* ------------------ moderation.py: the gate on its own ----------------- *)
GateMessages == {<<>>, TypedQuery, <<"v", "o", "c", "e">>}

\* moderate_or_pass(message), lines 45-56: the backend is asked and the result
\* returned (or the error raised) to the caller
GateReturn ==
    /\ gate_pc = "called"
    /\ gate_result' = moderate_or_pass(gate_resp)
    /\ gate_pc' = "returned"
    /\ UNCHANGED <<snipVars, mainVars, parseVars, gate_message, gate_resp>>

\* moderate_or_pass is called with a message, and the backend does one of the
\* things it can do
InitGate ==
    /\ MainInit("cli")
    /\ ParseIdle
    /\ SnipIdle
    /\ gate_pc = "called"
    /\ gate_message \in GateMessages
    /\ gate_resp \in ModerationResponses
    /\ gate_result = Raised("none")

NextGate == GateReturn

SpecGate == InitGate /\ [][NextGate]_vars

(* ------------------ rag.py: _make_snippet on its own ------------------- *)
\* the characters of a stored document: a letter, a blank, a line break, a dot
DocChars == {"a", " ", "\n", "."}

DocTexts == StrUpTo(DocChars, MaxDocLen)

\* _make_snippet(text, max_len), lines 36-39: the snippet is built and returned
MakeSnippet ==
    /\ snip_pc = "called"
    /\ snippet' = _make_snippet(snip_text, snip_max_len)
    /\ snip_pc' = "returned"
    /\ UNCHANGED <<mainVars, parseVars, gateVars, snip_text, snip_max_len>>

\* _make_snippet is called with a document text and a positive max_len
InitSnippet ==
    /\ MainInit("cli")
    /\ ParseIdle
    /\ GateIdle
    /\ snip_pc = "called"
    /\ snip_text \in DocTexts
    /\ snip_max_len \in 1..MaxSnippetLen
    /\ snippet = <<>>

NextSnippet == MakeSnippet

SpecSnippet == InitSnippet /\ [][NextSnippet]_vars

(* ------------------------- the specification --------------------------- *)
Next ==
    \/ CliInput
    \/ CliStt
    \/ CliModerate
    \/ CliRetrieve
    \/ LlmFirstCall
    \/ LlmToolCall
    \/ LlmFollowup
    \/ CliUnpack
    \/ CliAskTts
    \/ CliTtsReturn
    \/ CliAskImage
    \/ \E i \in 1..Len(jobs) : JobCall(i)
    \/ \E i \in 1..Len(jobs) : JobCallReturn(i)
    \/ \E i \in 1..Len(jobs) : JobWrite(i)
    \/ ChatRequest
    \/ ChatModerate
    \/ ChatRetrieve
    \/ ChatUnpack
    \/ ImageRequest
    \/ ImageReturn
    \/ TtsRequest
    \/ TtsReturn
    \/ SttRequest

Spec == Init /\ [][Next]_vars

(* ============================== claims ================================= *)
\* make_llm_recommendation has returned and the caller is about to unpack
Returned3 == Unpack3(ret)

CandidateTitles == {candidates[i].title : i \in 1..Len(candidates)}

\* text names the title, case-insensitively
Names(text, title) == Contains(Lower(text), Lower(title))

\* C1: whenever make_llm_recommendation has returned for a non-empty candidate
\* list, the title its caller takes from the result is non-null and is the title
\* of one of the candidates of that call.
C1_ResolvedTitleIsCandidate ==
    (pc = "unpack" /\ candidates # <<>>) =>
        /\ Returned3.exc = "none"
        /\ Returned3.chosen_title # None
        /\ Returned3.chosen_title \in CandidateTitles

\* C2: whenever the returned narrative names candidate i's title and names no
\* earlier candidate's title, the title the caller takes from the result is
\* candidate i's title (after a direct answer as after a tool round trip).
C2_FirstMatchWins ==
    pc = "unpack" =>
        \A i \in 1..Len(candidates) :
            (/\ Names(ret, candidates[i].title)
             /\ \A j \in 1..(i - 1) : ~Names(ret, candidates[j].title))
            => (Returned3.exc = "none" /\ Returned3.chosen_title = candidates[i].title)

\* C3: whenever the returned narrative names no candidate's title and the
\* candidate list is non-empty, the title the caller takes from the result is
\* the first candidate's title.
C3_FallbackIsFirstCandidate ==
    (/\ pc = "unpack"
     /\ candidates # <<>>
     /\ \A i \in 1..Len(candidates) : ~Names(ret, candidates[i].title))
    => (Returned3.exc = "none" /\ Returned3.chosen_title = candidates[1].title)

\* C4: in a call with an empty candidate list no tool call is handled (no
\* lookup, no follow-up generation call), and the title and the summary the
\* caller takes from the result are both null.
C4_EmptyCandidates ==
    (candidates = <<>> /\ pc \in {"tool", "followup", "unpack"}) =>
        /\ pc = "unpack"
        /\ \A k \in 1..Len(log) : log[k].op # "lookup" /\ log[k].result # "followup"
        /\ Returned3.exc = "none"
        /\ Returned3.chosen_title = None
        /\ Returned3.summary = None

\* C5: once moderate_or_pass has returned for a parsed verdict, it has returned
\* the one warning text (a non-empty string) if is_violating, whatever the
\* category and the explanation, and None if not.
C5_GateMapping ==
    (gate_pc = "returned" /\ ~gate_resp.raised /\ gate_resp.parsed) =>
        /\ gate_result.exc = "none"
        /\ gate_resp.output.is_violating =>
              (gate_result.value = WarningText /\ Truthy(gate_result.value))
        /\ ~gate_resp.output.is_violating => gate_result.value = None

C5_Witness ==
    /\ gate_pc = "returned"
    /\ gate_resp.parsed
    /\ gate_resp.output.is_violating
    /\ gate_resp.output.category = "self_harm"
    /\ gate_resp.output.explanation_if_violating = "text"
    /\ gate_result.value = WarningText

\* the calls of the current query made before its k-th call
PassedBefore(k) ==
    \E j \in 1..(k - 1) :
        /\ log[j].op = "moderate"
        /\ log[j].result = "pass"
        /\ log[k].op \in {"retrieve", "generate"} => log[j].arg = log[k].arg

\* C6: in the terminal loop and in /api/chat, every retrieval, generation,
\* lookup, speech or image call of a query comes after the gate has passed that
\* same query; and when the gate has warned, the gate's call is the query's only
\* call and the warning is the only thing answered.
C6_ModerationFirst ==
    /\ \A k \in 1..Len(log) : log[k].op # "moderate" => PassedBefore(k)
    /\ (\E k \in 1..Len(log) : log[k].op = "moderate" /\ log[k].result = "warning")
          => (Len(log) = 1 /\ said = <<"warning">>)
    /\ pc \in {"retrieve", "llm_first", "tool", "followup", "unpack", "ask_tts", "ask_img"}
          => (log # <<>> /\ log[1] = [op |-> "moderate", arg |-> user_q, result |-> "pass"])

C6_Witness ==
    /\ frontend = "cli"
    /\ user_q = <<"v", "o", "c", "e">>
    /\ Len(log) = 3
    /\ log[1] = [op |-> "moderate", arg |-> user_q, result |-> "pass"]
    /\ log[2].op = "retrieve"
    /\ log[3].op = "generate"

ErrorLine == "[ERROR] Image generation failed"

LoggedByJob(j) == \E k \in 1..Len(j.printed) : j.printed[k] = ErrorLine

C9_ModerationFailureRecoverable ==
    (\E k \in 1..Len(log) : log[k].op = "moderate" /\ log[k].result = "raised") =>
        /\ Len(log) = 1
        /\ error # "none"
        /\ \A k \in 1..Len(said) : said[k] # "warning"
        /\ pc \in {"input", "idle"}

\* what the claim says parse_books returns
Markers(f) == {i \in 1..Len(f) : StartsWith(RStripNewline(f[i]), TitleMarker)}

NthMarker(f, n) ==
    CHOOSE i \in Markers(f) : Cardinality({j \in Markers(f) : j < i}) = n - 1

BodyEnd(f, i) ==
    IF \E j \in Markers(f) : j > i
    THEN (CHOOSE j \in Markers(f) : j > i /\ \A k \in Markers(f) : k > i => j <= k) - 1
    ELSE Len(f)

ClaimedTitles(f) ==
    [n \in 1..Cardinality(Markers(f)) |->
        LET line == RStripNewline(f[NthMarker(f, n)])
        IN Strip(SubSeq(line, Len(TitleMarker) + 1, Len(line)))]

ClaimedSummaries(f) ==
    [n \in 1..Cardinality(Markers(f)) |->
        LET i == NthMarker(f, n)
        IN SummaryOf([k \in 1..(BodyEnd(f, i) - i) |-> RStripNewline(f[i + k])])]

\* C10: when parse_books is done, there is one title per marker line, in file
\* order, and each summary is made of the lines between its marker and the
\* next (or the end of the file), stripped; lines before the first marker are
\* in no summary.
C10_ParseBooks ==
    parse_pc = "done" =>
        /\ titles = ClaimedTitles(file_lines)
        /\ summaries = ClaimedSummaries(file_lines)

\* newlines collapsed into blanks, as the snippet is built from
Collapsed == Replace(snip_text, "\n", " ")

EndsWith(s, suffix) ==
    Len(s) >= Len(suffix) /\ SubSeq(s, Len(s) - Len(suffix) + 1, Len(s)) = suffix

\* the text did not fit and was cut
Truncated == Len(Strip(Collapsed)) > snip_max_len

\* C11: for every document text and every positive max_len, the snippet that
\* _make_snippet returns is at most max_len long, holds no newline, is the
\* newline-collapsed text (outer blanks aside) when that text fits, and ends
\* with "..." when the text was truncated
C11_SnippetBound ==
    snip_pc = "returned" =>
        /\ Len(snippet) <= snip_max_len
        /\ ~Contains(snippet, <<"\n">>)
        /\ (Len(Collapsed) <= snip_max_len => snippet = Strip(Collapsed))
        /\ (Truncated => EndsWith(snippet, Ellipsis))

\* the parts of C11 taken one at a time, word for word
C11_Length == snip_pc = "returned" => Len(snippet) <= snip_max_len
C11_NoNewline == snip_pc = "returned" => ~Contains(snippet, <<"\n">>)
C11_FitsUnchanged ==
    snip_pc = "returned" /\ Len(Collapsed) <= snip_max_len => snippet = Collapsed
C11_FitsStripped ==
    snip_pc = "returned" /\ Len(Collapsed) <= snip_max_len => snippet = Strip(Collapsed)
C11_MarkerIfTruncated == snip_pc = "returned" /\ Truncated => EndsWith(snippet, Ellipsis)
C11_MarkerOnlyIfTruncated == snip_pc = "returned" /\ EndsWith(snippet, Ellipsis) => Truncated

\* a cut snippet is the first max_len characters, right-trimmed, plus the marker:
\* up to three characters longer than max_len
C11_LengthWithMarker ==
    snip_pc = "returned" =>
        Len(snippet) <= (IF Truncated THEN snip_max_len + Len(Ellipsis) ELSE snip_max_len)

\* how many calls of one kind the current recommend call has made
CountIn(l, op, result) ==
    Cardinality({k \in 1..Len(l) : l[k].op = op /\ l[k].result = result})

FirstCalls == CountIn(log, "generate", "first")
FollowupCalls == CountIn(log, "generate", "followup")
Lookups == CountIn(log, "lookup", "returned")

\* the first requested tool call is the supported lookup
RequestsLookup == pc = "tool" /\ tool_call.name = "get_summary_by_title"

\* the tool message for a requested call: the lookup's result under the call's id
ToolMessageFor(tc) ==
    Message("tool", get_summary_by_title(args_get_title(json_loads(tc.arguments).value)),
            <<>>, tc.id)

\* at most two generation calls and one lookup; a follow-up only after a lookup
C12_Bounded ==
    /\ FirstCalls <= 1
    /\ FollowupCalls <= Lookups
    /\ Lookups <= 1
    /\ pc = "unpack" => FollowupCalls = Lookups
    /\ pc = "followup" =>
            /\ Lookups = 1 /\ FollowupCalls = 0
            /\ Len(messages) = 4
            /\ messages[3].role = "assistant"
            /\ messages[3].tool_calls[1] = tool_call
            /\ messages[4] = ToolMessageFor(tool_call)

\* the lookup runs and the follow-up is issued only on a request of the lookup;
\* the follow-up call is logged as one call and its text is what is returned;
\* a first response that is returned directly leaves no lookup and no follow-up
C12_OnlyOnRequest ==
    /\ CountIn(log', "lookup", "returned") > Lookups => RequestsLookup
    /\ CountIn(log', "generate", "followup") > FollowupCalls => pc = "followup"
    /\ (pc = "followup" /\ pc' # pc) =>
            /\ log' = Append(log, [op |-> "generate", arg |-> user_q, result |-> "followup"])
            /\ IF pc' = "unpack" THEN ret' \in Narratives ELSE error' = "APIError"
    /\ (pc = "llm_first" /\ pc' = "unpack") =>
            /\ CountIn(log', "lookup", "returned") = 0
            /\ CountIn(log', "generate", "followup") = 0

\* the step that handles a requested lookup runs it, appends its result after
\* the assistant's request and goes on to the follow-up call
LookupExecuted ==
    /\ pc' = "followup"
    /\ log' = Append(log, [op |-> "lookup", arg |-> <<>>, result |-> "returned"])
    /\ messages[Len(messages)].role = "assistant"
    /\ messages[Len(messages)].tool_calls[1] = tool_call
    /\ messages' = Append(messages, ToolMessageFor(tool_call))

C12_WitnessSeveral ==
    /\ pc = "followup"
    /\ Len(messages[3].tool_calls) = 2
    /\ Lookups = 1

\* the first requested tool call names something else than the lookup
RequestsOtherTool == pc = "tool" /\ tool_call.name # "get_summary_by_title"

\* the failure text is returned and nothing has been executed for it
FailureReturned ==
    /\ pc' = "unpack"
    /\ ret' = ToolFailureText
    /\ log' = log
    /\ \A k \in 1..Len(messages') : messages'[k].role # "tool"

\* C13: when the first requested tool call names any tool other than
\* get_summary_by_title, the fixed failure text is returned and nothing is
\* executed: no lookup, no tool message, no follow-up generation call
C13_UnsupportedTool ==
    [][(RequestsOtherTool /\ pc' # pc) => FailureReturned]_vars

\* what the code does: the same once json.loads has accepted the arguments, and
\* JSONDecodeError, with nothing executed either, when it rejects them
C13_UnsupportedToolOnParsedArguments ==
    [][(RequestsOtherTool /\ pc' # pc) =>
            IF json_loads(tool_call.arguments).exc = "none"
            THEN FailureReturned
            ELSE /\ error' = "JSONDecodeError"
                 /\ log' = log
                 /\ messages' = <<>>]_vars

\* job i has been dispatched on a thread of its own and has not ended
Dispatched(i) == jobs[i].thread /\ jobs[i].state \in Running

\* C14: once a background job has been dispatched, no step of the caller cuts
\* it short, the 'exit'/'quit' command included: the job stays under way until
\* it has finished or failed by itself
C14_NoCancellation ==
    [][\A i \in 1..Len(jobs) :
            Dispatched(i) => jobs'[i].state \in Running \cup {"finished", "failed"}]_vars

\* what the code does: a dispatched job is cut short exactly by the steps that
\* end the process (the loop's exit, or an exception leaving main); every
\* other step of the caller leaves it alone
C14_CutOnlyByProcessEnd ==
    [][\A i \in 1..Len(jobs) :
            Dispatched(i) =>
                IF pc' \in {"exited", "crashed"} /\ pc' # pc
                THEN jobs'[i].state = "killed"
                ELSE jobs'[i].state \in Running \cup {"finished", "failed"}]_vars

====
